---- MODULE Spec2Model ----
(***************************************************************************)
(* A state-machine model of the window procedure of src/main.rs: a custom  *)
(* title bar with three buttons drawn in the client area of a Win32        *)
(* window.  The only state the program itself keeps is the hovered button, *)
(* stored as an integer in the window's GWLP_USERDATA slot.  Everything    *)
(* else (client rectangle, DPI, theme metrics, placement) is host state    *)
(* that the handler queries afresh on every message.                       *)
(***************************************************************************)
EXTENDS Integers, Sequences, FiniteSets, TLC

VARIABLES
    userData,     \* GWLP_USERDATA: the stored hover state as an isize
    phase,        \* "creating", "running", "closing" (a posted WM_CLOSE is
                  \* next in the queue), "destroying", "destroyed"
    dpi,          \* GetDpiForWindow
    clientSize,   \* <<width, height>> of the client area (GetClientRect)
    showCmd,      \* WINDOWPLACEMENT.showCmd
    last,         \* what the last handled message read, did and returned
    scen          \* bookkeeping of the scenario specifications, outside the
                  \* program: the progress of the hover-crossing scenario
                  \* (SpecHover), the pointer move being routed (SpecRoute),
                  \* the display and the handles a paint left open (SpecPaint),
                  \* an earlier click to compare with (SpecClick)

vars == <<userData, phase, dpi, clientSize, showCmd, last, scen>>

hostVars == <<dpi, clientSize, showCmd>>

(***************************************************************************)
(* Program constants.                                                      *)
(***************************************************************************)
DEFAULT_DPI == 96
TOP_N_BOTTOM_BORDERS_SIZE == 2
WIN32_FAKE_SHADOW_HEIGHT == 1
BUTTON_WIDTH == 47

(***************************************************************************)
(* Rectangles and points.                                                  *)
(***************************************************************************)
Rect(l, t, r, b) == [left |-> l, top |-> t, right |-> r, bottom |-> b]

\* PtInRect: inside on left/top edges, outside on right/bottom edges.
PtInRect(r, p) ==
    /\ p[1] >= r.left /\ p[1] < r.right
    /\ p[2] >= r.top  /\ p[2] < r.bottom

\* GetClientRect: the client rectangle in client coordinates (origin 0,0).
GetClientRect == Rect(0, 0, clientSize[1], clientSize[2])

\* Integer division truncating toward zero, as a float-to-int `as` cast does.
TruncDiv(n, d) == IF n >= 0 THEN n \div d ELSE -((-n) \div d)

\* n rounded to a multiple of u, ties to the even multiple.
RoundHalfEven(n, u) ==
    LET q == n \div u
        r == n % u
    IN  IF 2 * r > u \/ (2 * r = u /\ q % 2 = 1) THEN (q + 1) * u ELSE q * u

\* The distance between neighbouring f32 values at n (24-bit significand),
\* for 0 <= n < 2^31.
F32Ulp(n) ==
    IF n < 2^24 THEN 1 ELSE IF n < 2^25 THEN 2 ELSE IF n < 2^26 THEN 4
    ELSE IF n < 2^27 THEN 8 ELSE IF n < 2^28 THEN 16 ELSE IF n < 2^29 THEN 32
    ELSE IF n < 2^30 THEN 64 ELSE 128

\* `n as f32` for a non-negative integer: the nearest f32, ties to even.
AsF32(n) == RoundHalfEven(n, F32Ulp(n))

\* `(a / 96.0) as i32` for a non-negative integer-valued f32 a: the quotient
\* rounded to the nearest f32, then truncated.  Below 2^18 the f32 spacing is
\* under 2/96, so the rounded quotient never reaches the next integer; from
\* 2^18 on it may.
F32DivAsI32(a) ==
    LET q == a \div DEFAULT_DPI
        r == a % DEFAULT_DPI
        \* 1 / (half the f32 spacing just below q + 1), for 2^18 <= q < 2^23
        m == IF q < 2^19 THEN 64 ELSE IF q < 2^20 THEN 32 ELSE IF q < 2^21 THEN 16
             ELSE IF q < 2^22 THEN 8 ELSE 4
    IN  IF r = 0 \/ q < 2^18 THEN TruncDiv(a, DEFAULT_DPI)
        ELSE IF q < 2^23 THEN (IF (DEFAULT_DPI - r) * m <= DEFAULT_DPI THEN q + 1 ELSE q)
        ELSE IF q < 2^24 THEN RoundHalfEven(a, DEFAULT_DPI) \div DEFAULT_DPI
        ELSE RoundHalfEven(a, 2 * DEFAULT_DPI) \div DEFAULT_DPI

\* win32_dpi_scale: (value as f32 * dpi as f32 / DEFAULT_DPI) as i32, each
\* f32 operation rounding its exact result to the nearest f32.  Defined for
\* products below 2^31.
win32_dpi_scale(value, d) ==
    LET mag(v) == F32DivAsI32(AsF32(AsF32(v) * AsF32(d)))
    IN  IF value < 0 THEN -mag(-value) ELSE mag(value)

(***************************************************************************)
(* The hovered button and its round trip through the isize slot.           *)
(***************************************************************************)
Buttons == {"None", "Minimize", "Maximize", "Close"}

\* `button as isize`: the enum discriminant.
HoveredAsIsize(b) ==
    CASE b = "None"     -> 0
      [] b = "Minimize" -> 1
      [] b = "Maximize" -> 2
      [] b = "Close"    -> 3

\* impl From<isize> for CustomTitleBarHoveredButton
HoveredFromIsize(item) ==
    CASE item = 1 -> "Minimize"
      [] item = 2 -> "Maximize"
      [] item = 3 -> "Close"
      [] OTHER    -> "None"

\* let title_bar_hovered_button = GetWindowLongPtrW(handle, GWLP_USERDATA).into()
title_bar_hovered_button == HoveredFromIsize(userData)

(***************************************************************************)
(* Layout calculator.                                                      *)
(***************************************************************************)
\* Outcomes of the host queries inside win32_titlebar_rect.
TitleBarOutcomes == {"ok", "GetThemePartSize", "CloseThemeData", "GetClientRect"}

\* titlebar_size.cy: the caption height GetThemePartSize(WP_CAPTION) reports.
titlebar_size_cy == 32

\* Variant: the two border rows left out of the height.
win32_titlebar_rect_NoBorders(outcome) ==
    IF outcome # "ok"
    THEN [ok |-> FALSE, rect |-> Rect(0, 0, 0, 0)]
    ELSE LET height == win32_dpi_scale(titlebar_size_cy, dpi)
             rect   == GetClientRect
         IN  [ok |-> TRUE,
              rect |-> [rect EXCEPT !.bottom = rect.top + height]]

\* win32_titlebar_rect: Err when any of the three queries fails, else the
\* client rectangle with bottom = top + scale(cy, dpi) + 2.
win32_titlebar_rect(outcome) ==
    IF outcome # "ok"
    THEN [ok |-> FALSE, rect |-> Rect(0, 0, 0, 0)]
    ELSE LET height == win32_dpi_scale(titlebar_size_cy, dpi) + TOP_N_BOTTOM_BORDERS_SIZE
             rect   == GetClientRect
         IN  [ok |-> TRUE,
              rect |-> [rect EXCEPT !.bottom = rect.top + height]]

\* win32_fake_shadow_rect: the top WIN32_FAKE_SHADOW_HEIGHT rows of the
\* client rectangle (GetClientRect succeeding).
win32_fake_shadow_rect ==
    LET rect == GetClientRect
    IN  [rect EXCEPT !.bottom = rect.top + WIN32_FAKE_SHADOW_HEIGHT]

\* Variant: minimize placed from close instead of from maximize.
win32_get_title_bar_button_rects_Overlap(title_bar_rect) ==
    LET button_width == win32_dpi_scale(BUTTON_WIDTH, dpi)
        close == [title_bar_rect EXCEPT
                    !.top  = title_bar_rect.top + WIN32_FAKE_SHADOW_HEIGHT,
                    !.left = title_bar_rect.right - button_width]
        maximize == [close EXCEPT !.left  = close.left - button_width,
                                  !.right = close.right - button_width]
        minimize == [close EXCEPT !.left  = close.left - button_width,
                                  !.right = close.right - button_width]
    IN  [close |-> close, maximize |-> maximize, minimize |-> minimize]

\* CustomTitleBarButtonRects::win32_get_title_bar_button_rects
win32_get_title_bar_button_rects(title_bar_rect) ==
    LET button_width == win32_dpi_scale(BUTTON_WIDTH, dpi)
        close == [title_bar_rect EXCEPT
                    !.top  = title_bar_rect.top + WIN32_FAKE_SHADOW_HEIGHT,
                    !.left = title_bar_rect.right - button_width]
        maximize == [close EXCEPT !.left  = close.left - button_width,
                                  !.right = close.right - button_width]
        minimize == [maximize EXCEPT !.left  = maximize.left - button_width,
                                     !.right = maximize.right - button_width]
    IN  [close |-> close, maximize |-> maximize, minimize |-> minimize]

\* text_padding in the WM_PAINT arm.
text_padding == 10

\* titlebar_text_rect in the WM_PAINT arm: the title bar between the left
\* padding and the padding before the minimize button.
titlebar_text_rect(title_bar_rect, button_rects) ==
    [title_bar_rect EXCEPT
        !.left  = title_bar_rect.left + text_padding,
        !.right = button_rects.minimize.left - text_padding]

\* win32_window_is_maximized: Err when GetWindowPlacement fails.
win32_window_is_maximized(placementOk) ==
    IF placementOk
    THEN [ok |-> TRUE,  value |-> (showCmd = "SW_SHOWMAXIMIZED")]
    ELSE [ok |-> FALSE, value |-> FALSE]

\* matches!(win32_window_is_maximized(handle), Ok(true))
IsOkTrue(res) == res.ok /\ res.value

(***************************************************************************)
(* Host services whose results the handler consumes.                       *)
(***************************************************************************)
\* GetSystemMetricsForDpi for SM_CXFRAME, SM_CYFRAME and SM_CXPADDEDBORDER:
\* 4 pixels each at 96 DPI, scaled by the host with rounding (MulDiv).
GetSystemMetricsForDpi(metric, d) == (4 * d + (DEFAULT_DPI \div 2)) \div DEFAULT_DPI

\* An LPARAM is 64 bits wide, beyond the integers TLC computes with, so it is
\* held as its 16-bit words: lo = bits 0..15, hi = bits 16..31, top = the
\* value of bits 32..63.  MAKELPARAM as the host packs a screen point: x in
\* the low word, y in the next, two's complement.
MakeLParam(x, y) == [lo |-> x % 65536, hi |-> y % 65536, top |-> 0]

\* Variant: the word widened without its sign (`as u16 as i32`).
AsI16_Unsigned(v) == v

\* `as i16 as i32` on a value already masked to 16 bits.
AsI16(v) == IF v >= 32768 THEN v - 65536 ELSE v

\* get_x_param: (l_param.0 & 0xffff) as i16 as i32
get_x_param(l_param) == AsI16(l_param.lo)

\* get_y_param: ((l_param.0 >> 16) & 0xffff) as i16 as i32
get_y_param(l_param) == AsI16(l_param.hi)

\* Variant: the padding not halved.
win32_center_rect_in_rect_NoHalf(to_center, outer_rect) ==
    LET to_width     == to_center.right - to_center.left
        to_height    == to_center.bottom - to_center.top
        outer_width  == outer_rect.right - outer_rect.left
        outer_height == outer_rect.bottom - outer_rect.top
        padding_x    == outer_width - to_width
        padding_y    == outer_height - to_height
    IN  Rect(outer_rect.left + padding_x, outer_rect.top + padding_y,
             outer_rect.left + padding_x + to_width,
             outer_rect.top + padding_y + to_height)

\* win32_center_rect_in_rect: to_center as the function leaves it (outer_rect
\* is a shared reference and is not written); `/ 2` on i32 truncates.
win32_center_rect_in_rect(to_center, outer_rect) ==
    LET to_width     == to_center.right - to_center.left
        to_height    == to_center.bottom - to_center.top
        outer_width  == outer_rect.right - outer_rect.left
        outer_height == outer_rect.bottom - outer_rect.top
        padding_x    == TruncDiv(outer_width - to_width, 2)
        padding_y    == TruncDiv(outer_height - to_height, 2)
    IN  Rect(outer_rect.left + padding_x, outer_rect.top + padding_y,
             outer_rect.left + padding_x + to_width,
             outer_rect.top + padding_y + to_height)

\* rgb: (r as u32) | ((g as u32) << 8) | ((b as u32) << 16); the three
\* fields do not overlap, so the bitwise or is their sum.
rgb(r, g, b) == r + (g * 2^8) + (b * 2^16)

\* get_r_value: (rgb & 0xff) as u8
get_r_value(v) == v % 2^8

\* get_g_value: ((rgb >> 8) & 0xff) as u8
get_g_value(v) == (v \div 2^8) % 2^8

\* Variant: the blue channel read from bits 8..15.
get_b_value_Shift8(v) == (v \div 2^8) % 2^8

\* get_b_value: ((rgb >> 16) & 0xff) as u8
get_b_value(v) == (v \div 2^16) % 2^8

\* ScreenToClient: subtract the screen position of the client origin.
ScreenToClient(origin, p) == <<p[1] - origin[1], p[2] - origin[2]>>

\* The screen position of the client area's origin: the top-left corner of
\* the monitor when maximized, else where the user left the window (here
\* partly left of the primary monitor, so screen x may be negative).
ClientOrigin == IF showCmd = "SW_SHOWMAXIMIZED" THEN <<0, 0>> ELSE <<-300, 20>>

(***************************************************************************)
(* WM_NCHITTEST.                                                           *)
(***************************************************************************)
\* Classifications DefWindowProcW may give a point.
HitCodes == {"HTNOWHERE", "HTLEFT", "HTTOP", "HTBOTTOMRIGHT", "HTCLIENT", "HTCAPTION"}

\* DefWindowProcW(WM_NCHITTEST): a point inside the client rectangle is
\* HTCLIENT.  A point outside it is outside the window or on a resize
\* border; when the window is maximized the borders do not resize, and the
\* strip WM_NCCALCSIZE leaves above the client area may be what the host
\* takes for its own caption.
DefHitTest(p) ==
    IF PtInRect(GetClientRect, p) THEN {"HTCLIENT"}
    ELSE IF showCmd = "SW_SHOWMAXIMIZED" THEN HitCodes \ {"HTCLIENT"}
    ELSE {"HTNOWHERE", "HTLEFT", "HTTOP", "HTBOTTOMRIGHT"}

\* Variant: HTTOP left out of the codes returned unchanged.
IsPassThrough_NoTop(hit) ==
    hit \in {"HTNOWHERE", "HTRIGHT", "HTLEFT", "HTTOPLEFT",
             "HTTOPRIGHT", "HTBOTTOMRIGHT", "HTBOTTOM", "HTBOTTOMLEFT"}

\* The first match of the WM_NCHITTEST arm: codes returned unchanged.
IsPassThrough(hit) ==
    hit \in {"HTNOWHERE", "HTRIGHT", "HTLEFT", "HTTOPLEFT", "HTTOP",
             "HTTOPRIGHT", "HTBOTTOMRIGHT", "HTBOTTOM", "HTBOTTOMLEFT"}

\* Variant: the band starts at row 0.
InTopBand_FromZero(y, frame_y, padding) == y >= 0 /\ y < frame_y + padding

\* cursor_point.y > 0 && cursor_point.y < frame_y + padding
InTopBand(y, frame_y, padding) == y > 0 /\ y < frame_y + padding

\* Variant: the row at title_bar_rect.bottom counted as caption.
InCaption_Inclusive(y, title_bar_rect) == y <= title_bar_rect.bottom

\* cursor_point.y < title_bar_rect.bottom
InCaption(y, title_bar_rect) == y < title_bar_rect.bottom

\* TRUE when the hit-test gets as far as calling win32_titlebar_rect.
HitTestQueriesTitleBar(hit, hovered, p) ==
    /\ ~IsPassThrough(hit)
    /\ hovered # "Maximize"
    /\ ~InTopBand(p[2], GetSystemMetricsForDpi("SM_CYFRAME", dpi),
                  GetSystemMetricsForDpi("SM_CXPADDEDBORDER", dpi))

\* Variant: the top band tested before the stored hover state.
NcHitTestResult_BandFirst(hit, hovered, p, tb) ==
    LET frame_y == GetSystemMetricsForDpi("SM_CYFRAME", dpi)
        padding == GetSystemMetricsForDpi("SM_CXPADDEDBORDER", dpi)
    IN  IF IsPassThrough(hit) THEN hit
        ELSE IF InTopBand(p[2], frame_y, padding) THEN "HTTOP"
        ELSE IF hovered = "Maximize" THEN "HTMAXBUTTON"
        ELSE IF ~tb.ok THEN hit
        ELSE IF InCaption(p[2], tb.rect) THEN "HTCAPTION"
        ELSE "HTCLIENT"

\* Variant: a failed title bar query answered with HTCLIENT.
NcHitTestResult_FailClient(hit, hovered, p, tb) ==
    LET frame_y == GetSystemMetricsForDpi("SM_CYFRAME", dpi)
        padding == GetSystemMetricsForDpi("SM_CXPADDEDBORDER", dpi)
    IN  IF IsPassThrough(hit) THEN hit
        ELSE IF hovered = "Maximize" THEN "HTMAXBUTTON"
        ELSE IF InTopBand(p[2], frame_y, padding) THEN "HTTOP"
        ELSE IF ~tb.ok THEN "HTCLIENT"
        ELSE IF InCaption(p[2], tb.rect) THEN "HTCAPTION"
        ELSE "HTCLIENT"

\* The value the WM_NCHITTEST arm returns.  hit is DefWindowProcW's own
\* classification, p the cursor in client coordinates, tb the result of
\* win32_titlebar_rect (consulted only on the last two steps).
NcHitTestResult(hit, hovered, p, tb) ==
    LET frame_y == GetSystemMetricsForDpi("SM_CYFRAME", dpi)
        padding == GetSystemMetricsForDpi("SM_CXPADDEDBORDER", dpi)
    IN  IF IsPassThrough(hit) THEN hit
        ELSE IF hovered = "Maximize" THEN "HTMAXBUTTON"
        ELSE IF InTopBand(p[2], frame_y, padding) THEN "HTTOP"
        ELSE IF ~tb.ok THEN hit
        ELSE IF InCaption(p[2], tb.rect) THEN "HTCAPTION"
        ELSE "HTCLIENT"

(***************************************************************************)
(* Hover tracking: WM_NCMOUSEMOVE and WM_MOUSEMOVE.                        *)
(***************************************************************************)
\* Variant: the close rectangle is never tested.
NewHoveredButton_NoClose(button_rects, p) ==
    IF PtInRect(button_rects.minimize, p) THEN "Minimize"
    ELSE IF PtInRect(button_rects.maximize, p) THEN "Maximize"
    ELSE "None"

\* The if/else-if chain over PtInRect in the WM_NCMOUSEMOVE arm.
NewHoveredButton(button_rects, p) ==
    IF PtInRect(button_rects.minimize, p) THEN "Minimize"
    ELSE IF PtInRect(button_rects.maximize, p) THEN "Maximize"
    ELSE IF PtInRect(button_rects.close, p) THEN "Close"
    ELSE "None"

\* What a handler did: whether and what it wrote to GWLP_USERDATA, the
\* rectangles it invalidated, what it returned, whether DefWindowProcW was
\* called, and the window commands it issued.
Outcome(wrote, ud, inval, ret, def, cmds) ==
    [wrote |-> wrote, ud |-> ud, inval |-> inval, ret |-> ret, def |-> def,
     cmds |-> cmds]

Forwarded == Outcome(FALSE, userData, {}, "DEFRESULT", TRUE, <<>>)

\* Variant: repaint and store on every move, changed or not.
NcMouseMoveOutcome_Always(hovered, cursorOk, p, tb) ==
    IF ~cursorOk \/ ~tb.ok THEN Forwarded
    ELSE LET button_rects == win32_get_title_bar_button_rects(tb.rect)
             new_hovered_button == NewHoveredButton(button_rects, p)
         IN  Outcome(TRUE, HoveredAsIsize(new_hovered_button),
                     {button_rects.close, button_rects.minimize,
                      button_rects.maximize},
                     "DEFRESULT", TRUE, <<>>)

\* Variant: the tighter invalidation the source comment mentions, only the
\* rectangles of the button left and the button entered.
NcMouseMoveOutcome_Tight(hovered, cursorOk, p, tb) ==
    IF ~cursorOk \/ ~tb.ok THEN Forwarded
    ELSE LET button_rects == win32_get_title_bar_button_rects(tb.rect)
             new_hovered_button == NewHoveredButton(button_rects, p)
             rectOf(b) == CASE b = "Close"    -> {button_rects.close}
                            [] b = "Maximize" -> {button_rects.maximize}
                            [] b = "Minimize" -> {button_rects.minimize}
                            [] OTHER          -> {}
         IN  IF hovered # new_hovered_button
             THEN Outcome(TRUE, HoveredAsIsize(new_hovered_button),
                          rectOf(hovered) \cup rectOf(new_hovered_button),
                          "DEFRESULT", TRUE, <<>>)
             ELSE Forwarded

\* Variant: a hovered maximize button is kept, as the hit-test keeps it.
NcMouseMoveOutcome_Sticky(hovered, cursorOk, p, tb) ==
    IF ~cursorOk \/ ~tb.ok \/ hovered = "Maximize" THEN Forwarded
    ELSE LET button_rects == win32_get_title_bar_button_rects(tb.rect)
             new_hovered_button == NewHoveredButton(button_rects, p)
         IN  IF hovered # new_hovered_button
             THEN Outcome(TRUE, HoveredAsIsize(new_hovered_button),
                          {button_rects.close, button_rects.minimize,
                           button_rects.maximize},
                          "DEFRESULT", TRUE, <<>>)
             ELSE Forwarded

\* The WM_NCMOUSEMOVE arm.  cursorOk: GetCursorPos succeeded.
NcMouseMoveOutcome(hovered, cursorOk, p, tb) ==
    IF ~cursorOk \/ ~tb.ok THEN Forwarded
    ELSE LET button_rects == win32_get_title_bar_button_rects(tb.rect)
             new_hovered_button == NewHoveredButton(button_rects, p)
         IN  IF hovered # new_hovered_button
             THEN Outcome(TRUE, HoveredAsIsize(new_hovered_button),
                          {button_rects.close, button_rects.minimize,
                           button_rects.maximize},
                          "DEFRESULT", TRUE, <<>>)
             ELSE Forwarded

\* Variant: the title bar is invalidated but the state is not reset.
MouseMoveOutcome_NoReset(hovered, tb) ==
    IF hovered # "None" /\ tb.ok
    THEN Outcome(FALSE, userData, {tb.rect}, "DEFRESULT", TRUE, <<>>)
    ELSE Forwarded

\* The WM_MOUSEMOVE arm.
MouseMoveOutcome(hovered, tb) ==
    IF hovered # "None" /\ tb.ok
    THEN Outcome(TRUE, HoveredAsIsize("None"), {tb.rect}, "DEFRESULT", TRUE, <<>>)
    ELSE Forwarded

(***************************************************************************)
(* Command dispatch: WM_NCLBUTTONDOWN and WM_NCLBUTTONUP.                  *)
(***************************************************************************)
\* Variant: the command fires on the press.
NcLButtonDownOutcome_Fires(hovered) ==
    CASE hovered = "Minimize" ->
            Outcome(FALSE, userData, {}, "0", FALSE, <<"ShowWindow(SW_MINIMIZE)">>)
      [] hovered = "Close" ->
            Outcome(FALSE, userData, {}, "0", FALSE, <<"PostMessage(WM_CLOSE)">>)
      [] hovered = "Maximize" ->
            Outcome(FALSE, userData, {}, "0", FALSE, <<"ShowWindow(SW_MAXIMIZE)">>)
      [] OTHER -> Forwarded

\* The WM_NCLBUTTONDOWN arm.
NcLButtonDownOutcome(hovered) ==
    IF hovered # "None"
    THEN Outcome(FALSE, userData, {}, "0", FALSE, <<>>)
    ELSE Forwarded

\* Variant: a completed click also clears the stored hover state.
NcLButtonUpOutcome_Resets(hovered, postOk, placementOk) ==
    CASE hovered = "Close" ->
            Outcome(TRUE, 0, {}, IF postOk THEN "0" ELSE "DEFRESULT", ~postOk,
                    <<"PostMessage(WM_CLOSE)">>)
      [] hovered = "Minimize" ->
            Outcome(TRUE, 0, {}, "0", FALSE, <<"ShowWindow(SW_MINIMIZE)">>)
      [] hovered = "Maximize" ->
            LET mode == IF IsOkTrue(win32_window_is_maximized(placementOk))
                        THEN "SW_NORMAL" ELSE "SW_MAXIMIZE"
            IN  Outcome(TRUE, 0, {}, "0", FALSE, <<"ShowWindow(" \o mode \o ")">>)
      [] OTHER -> Forwarded

\* Variant: maximize and restore the wrong way round.
NcLButtonUpOutcome_Swapped(hovered, postOk, placementOk) ==
    CASE hovered = "Close" ->
            Outcome(FALSE, userData, {}, IF postOk THEN "0" ELSE "DEFRESULT", ~postOk,
                    <<"PostMessage(WM_CLOSE)">>)
      [] hovered = "Minimize" ->
            Outcome(FALSE, userData, {}, "0", FALSE, <<"ShowWindow(SW_MINIMIZE)">>)
      [] hovered = "Maximize" ->
            LET mode == IF IsOkTrue(win32_window_is_maximized(placementOk))
                        THEN "SW_MAXIMIZE" ELSE "SW_NORMAL"
            IN  Outcome(FALSE, userData, {}, "0", FALSE,
                        <<"ShowWindow(" \o mode \o ")">>)
      [] OTHER -> Forwarded

\* The WM_NCLBUTTONUP arm.  postOk: PostMessageW succeeded; placementOk:
\* GetWindowPlacement succeeded.  Commands are listed as the calls made.
NcLButtonUpOutcome(hovered, postOk, placementOk) ==
    CASE hovered = "Close" ->
            IF postOk
            THEN Outcome(FALSE, userData, {}, "0", FALSE, <<"PostMessage(WM_CLOSE)">>)
            ELSE Outcome(FALSE, userData, {}, "DEFRESULT", TRUE,
                         <<"PostMessage(WM_CLOSE)">>)
      [] hovered = "Minimize" ->
            Outcome(FALSE, userData, {}, "0", FALSE, <<"ShowWindow(SW_MINIMIZE)">>)
      [] hovered = "Maximize" ->
            LET mode == IF IsOkTrue(win32_window_is_maximized(placementOk))
                        THEN "SW_NORMAL" ELSE "SW_MAXIMIZE"
            IN  Outcome(FALSE, userData, {}, "0", FALSE,
                        <<"ShowWindow(" \o mode \o ")">>)
      [] OTHER -> Forwarded

\* The placement ShowWindow leaves the window in.
ShowCmdAfter(cmds) ==
    IF cmds = <<"ShowWindow(SW_MINIMIZE)">> THEN "SW_SHOWMINIMIZED"
    ELSE IF cmds = <<"ShowWindow(SW_MAXIMIZE)">> THEN "SW_SHOWMAXIMIZED"
    ELSE IF cmds = <<"ShowWindow(SW_NORMAL)">> THEN "SW_SHOWNORMAL"
    ELSE showCmd

(***************************************************************************)
(* WM_NCCALCSIZE.                                                          *)
(***************************************************************************)
\* Variant: the top edge moved whatever the placement.
NcCalcSizeRect_AlwaysTop(rc, placementOk) ==
    LET frame_x == GetSystemMetricsForDpi("SM_CXFRAME", dpi)
        frame_y == GetSystemMetricsForDpi("SM_CYFRAME", dpi)
        padding == GetSystemMetricsForDpi("SM_CXPADDEDBORDER", dpi)
    IN  [left   |-> rc.left + (frame_x + padding),
         right  |-> rc.right - (frame_x + padding),
         bottom |-> rc.bottom - (frame_y + padding),
         top    |-> rc.top + padding]

\* rgrc[0] after the WM_NCCALCSIZE arm has adjusted it.
NcCalcSizeRect(rc, placementOk) ==
    LET frame_x == GetSystemMetricsForDpi("SM_CXFRAME", dpi)
        frame_y == GetSystemMetricsForDpi("SM_CYFRAME", dpi)
        padding == GetSystemMetricsForDpi("SM_CXPADDEDBORDER", dpi)
        is_maximized == win32_window_is_maximized(placementOk)
    IN  [left   |-> rc.left + (frame_x + padding),
         right  |-> rc.right - (frame_x + padding),
         bottom |-> rc.bottom - (frame_y + padding),
         top    |-> IF IsOkTrue(is_maximized) THEN rc.top + padding ELSE rc.top]

\* The WM_NCCALCSIZE arm: [handled, rect].
NcCalcSizeOutcome(w_param, paramsNull, rc, placementOk) ==
    IF w_param = 0 \/ paramsNull
    THEN [out |-> Forwarded, rc |-> rc]
    ELSE [out |-> Outcome(FALSE, userData, {}, "0", FALSE, <<>>),
          rc  |-> NcCalcSizeRect(rc, placementOk)]

(***************************************************************************)
(* The remaining arms.                                                     *)
(***************************************************************************)
\* WM_CREATE: GetWindowRect, SetWindowPos(SWP_FRAMECHANGED); every path ends
\* in DefWindowProcW.
CreateOutcome(rectOk, posOk) == Forwarded

\* WM_ACTIVATE: invalidate the title bar, then default handling.
ActivateOutcome(tb) ==
    IF ~tb.ok THEN Forwarded
    ELSE Outcome(FALSE, userData, {tb.rect}, "DEFRESULT", TRUE, <<>>)

\* WM_PAINT: paints from the stored hover state; both the early returns and
\* the fall-through after EndPaint end in DefWindowProcW.
PaintOutcome(tb, shadowOk) == Forwarded

\* Variant: the close button is drawn without its red fill.
PaintFill_NoClose(hovered) ==
    [minimize |-> IF hovered = "Minimize" THEN "hover" ELSE "none",
     maximize |-> IF hovered = "Maximize" THEN "hover" ELSE "none",
     close    |-> "none"]

\* The fill WM_PAINT draws under each button's icon: titlebar_hover_brush on
\* the hovered minimize or maximize button, the red fill_brush on the
\* hovered close button, nothing over the title-bar background otherwise.
PaintFill(hovered) ==
    [minimize |-> IF hovered = "Minimize" THEN "hover" ELSE "none",
     maximize |-> IF hovered = "Maximize" THEN "hover" ELSE "none",
     close    |-> IF hovered = "Close" THEN "red" ELSE "none"]

\* The handles WM_PAINT has acquired and those it has given back when it
\* returns, by the source's names.  o: the outcome of win32_titlebar_rect;
\* fontOk: SystemParametersInfoForDpi succeeded; shadowOk:
\* win32_fake_shadow_rect succeeded.
PaintHandles(hovered, o, fontOk, shadowOk) ==
    LET start == [acquired |-> {"hdc", "bg_brush", "theme", "titlebar_brush",
                                "titlebar_hover_brush",
                                "win32_titlebar_rect.theme"},
                  released |-> {"bg_brush"}
                                 \cup (IF o = "GetThemePartSize" THEN {}
                                       ELSE {"win32_titlebar_rect.theme"})]
        close == IF hovered = "Close" THEN {"fill_brush", "custom_pen"} ELSE {}
        drawn == [acquired |-> start.acquired
                                 \cup {"button_icon_brush", "button_icon_pen"}
                                 \cup close
                                 \cup (IF fontOk THEN {"theme_font"} ELSE {})
                                 \cup {"fake_top_shadow_brush"},
                  released |-> start.released
                                 \cup close
                                 \cup {"titlebar_hover_brush", "button_icon_brush",
                                       "button_icon_pen", "titlebar_brush", "theme"}]
    IN  IF o # "ok" THEN start
        ELSE IF ~shadowOk THEN drawn
        ELSE [drawn EXCEPT !.released = @ \cup {"fake_top_shadow_brush", "hdc"}]

\* WM_SETCURSOR: LoadCursorW/SetCursor, then default handling on every path.
SetCursorOutcome(cursorOk) == Forwarded

\* WM_DESTROY: PostQuitMessage(0); return 0.
DestroyOutcome == Outcome(FALSE, userData, {}, "0", FALSE, <<>>)

\* Any other message: the `_ => {}` arm and the final DefWindowProcW.
OtherOutcome == Forwarded

(***************************************************************************)
(* Inputs the host may deliver.                                            *)
(***************************************************************************)
\* <<dpi, client size>>: a normal window at 100% and at 150%, and one too
\* narrow for its three buttons.
Layouts == {<<96, <<800, 600>>>>, <<144, <<800, 600>>>>, <<96, <<120, 40>>>>}
ShowCmds == {"SW_SHOWNORMAL", "SW_SHOWMINIMIZED", "SW_SHOWMAXIMIZED"}

\* The layout the window has now, all queries succeeding.
CurTitleBar == win32_titlebar_rect("ok").rect
CurButtons  == win32_get_title_bar_button_rects(CurTitleBar)
CurBand     == GetSystemMetricsForDpi("SM_CYFRAME", dpi)
                 + GetSystemMetricsForDpi("SM_CXPADDEDBORDER", dpi)

\* Client-coordinate cursor positions around every edge the handlers test.
EdgeXs == UNION {{r.left - 1, r.left, r.right - 1, r.right} :
                    r \in {CurButtons.minimize, CurButtons.maximize, CurButtons.close}}
InsideXs == {CurButtons.minimize.left, CurButtons.maximize.left, CurButtons.close.left}
MoveProbes == (EdgeXs \X {1})
                \cup (InsideXs \X {-1, 0, CurTitleBar.bottom - 1, CurTitleBar.bottom})
HitProbes == {CurButtons.maximize.left, CurButtons.close.left} \X
             {-1, 0, 1, CurBand - 1, CurBand, CurTitleBar.bottom - 1, CurTitleBar.bottom}
ClickProbes == {<<CurButtons.minimize.left - 1, 1>>, <<CurButtons.maximize.left, 1>>}

\* The proposed window rectangles of WM_NCCALCSIZE.
ProposedRects == {Rect(100, 100, 900, 700), Rect(-8, -8, 1928, 1048)}

(***************************************************************************)
(* The record of the last handled message.                                 *)
(***************************************************************************)
NoPoint == <<0, 0>>
NoRect == Rect(0, 0, 0, 0)

\* msg: the message; hover: the stored hover state it read; hit, pt: the
\* hit code and client point it carried; q: "ok", "fail" or "-" for the host
\* queries it made; new: the button a non-client move computed; rc: the
\* rectangle WM_NCCALCSIZE left; max: the window was maximized (kept where
\* the handler asks for the placement); the rest is the handler's Outcome.
Handled(msg, hovered, hit, p, q, new, rc, out) ==
    [msg |-> msg, hover |-> hovered, hit |-> hit, pt |-> p, q |-> q, new |-> new,
     rc |-> rc,
     max |-> (msg \in {"WM_NCLBUTTONUP", "WM_NCCALCSIZE"}
                /\ showCmd = "SW_SHOWMAXIMIZED"), wrote |-> out.wrote, inval |-> out.inval, ret |-> out.ret,
     def |-> out.def, cmds |-> out.cmds]

\* SetWindowLongPtrW(handle, GWLP_USERDATA, ...) when the handler calls it.
Store(out) == userData' = IF out.wrote THEN out.ud ELSE userData

Live == {"running"}

Init ==
    /\ userData = 0
    /\ phase = "creating"
    /\ \E l \in Layouts : dpi = l[1] /\ clientSize = l[2]
    /\ showCmd = "SW_SHOWNORMAL"
    /\ last = Handled("-", "None", "-", NoPoint, "-", "-", NoRect, Forwarded)
    /\ scen = [stage |-> 0, changes |-> <<>>, exact |-> TRUE, all |-> TRUE,
               quiet |-> TRUE]

(***************************************************************************)
(* One action per message kind.                                            *)
(***************************************************************************)
NcCalcSizeHandler ==
    /\ phase \in Live \cup {"creating"}
    /\ \E w_param \in {0, 1}, paramsNull \in BOOLEAN, rc \in ProposedRects :
         \E placementOk \in (IF w_param = 0 \/ paramsNull THEN {TRUE} ELSE BOOLEAN) :
            LET r == NcCalcSizeOutcome(w_param, paramsNull, rc, placementOk)
                q == IF w_param = 0 THEN "wparam0"
                     ELSE IF paramsNull THEN "null"
                     ELSE IF placementOk THEN "ok" ELSE "fail"
            IN  /\ last' = Handled("WM_NCCALCSIZE", title_bar_hovered_button, "-",
                                   <<rc.left, rc.top>>, q, "-", r.rc, r.out)
                /\ Store(r.out)
    /\ UNCHANGED <<phase, hostVars>>

CreateHandler ==
    /\ phase = "creating"
    /\ \E rectOk \in BOOLEAN :
         \E posOk \in (IF rectOk THEN BOOLEAN ELSE {TRUE}) :
            LET out == CreateOutcome(rectOk, posOk)
            IN  /\ last' = Handled("WM_CREATE", title_bar_hovered_button, "-", NoPoint,
                                   IF rectOk /\ posOk THEN "ok" ELSE "fail", "-",
                                   NoRect, out)
                /\ Store(out)
    /\ phase' = "running"
    /\ UNCHANGED hostVars

ActivateHandler ==
    /\ phase \in Live
    /\ \E o \in TitleBarOutcomes :
         LET out == ActivateOutcome(win32_titlebar_rect(o))
         IN  /\ last' = Handled("WM_ACTIVATE", title_bar_hovered_button, "-", NoPoint,
                                IF o = "ok" THEN "ok" ELSE "fail", "-", NoRect, out)
             /\ Store(out)
    /\ UNCHANGED <<phase, hostVars>>

NcHitTestHandler ==
    /\ phase \in Live
    /\ \E c \in HitProbes :
         LET org == ClientOrigin
             l_param == MakeLParam(c[1] + org[1], c[2] + org[2])
             p == ScreenToClient(org, <<get_x_param(l_param), get_y_param(l_param)>>)
             hovered == title_bar_hovered_button
         IN  \E hit \in DefHitTest(c) :
             \E o \in (IF HitTestQueriesTitleBar(hit, hovered, p)
                       THEN TitleBarOutcomes ELSE {"-"}) :
                LET tb  == win32_titlebar_rect(o)
                    ret == NcHitTestResult(hit, hovered, p, tb)
                    out == Outcome(FALSE, userData, {}, ret, TRUE, <<>>)
                IN  /\ last' = Handled("WM_NCHITTEST", hovered, hit, p,
                                       IF o \in {"ok", "-"} THEN o ELSE "fail",
                                       "-", NoRect, out)
                    /\ Store(out)
    /\ UNCHANGED <<phase, hostVars>>

\* WM_PAINT with the given host outcomes.
PaintWith(o, fontOk, shadowOk) ==
    LET out == PaintOutcome(win32_titlebar_rect(o), shadowOk)
    IN  /\ last' = Handled("WM_PAINT", title_bar_hovered_button, "-", NoPoint,
                           IF o = "ok" /\ shadowOk THEN "ok" ELSE "fail",
                           "-", NoRect, out)
        /\ Store(out)

PaintHandler ==
    /\ phase \in Live
    /\ \E o \in TitleBarOutcomes :
         \E fontOk, shadowOk \in (IF o = "ok" THEN BOOLEAN ELSE {TRUE}) :
            PaintWith(o, fontOk, shadowOk)
    /\ UNCHANGED <<phase, hostVars>>

NcMouseMoveHandler ==
    /\ phase \in Live
    /\ \E cursorOk \in BOOLEAN :
         \E c \in (IF cursorOk THEN MoveProbes ELSE {NoPoint}),
            o \in (IF cursorOk THEN TitleBarOutcomes ELSE {"ok"}) :
            LET hovered == title_bar_hovered_button
                org == ClientOrigin
                \* GetCursorPos reports screen coordinates
                p   == ScreenToClient(org, <<c[1] + org[1], c[2] + org[2]>>)
                tb  == win32_titlebar_rect(o)
                out == NcMouseMoveOutcome(hovered, cursorOk, p, tb)
                ok  == cursorOk /\ tb.ok
            IN  /\ last' = Handled("WM_NCMOUSEMOVE", hovered, "-",
                                   IF cursorOk THEN p ELSE NoPoint,
                                   IF ok THEN "ok" ELSE "fail",
                                   IF ok THEN NewHoveredButton(
                                                 win32_get_title_bar_button_rects(tb.rect), p)
                                         ELSE "-",
                                   NoRect, out)
                /\ Store(out)
    /\ UNCHANGED <<phase, hostVars>>

MouseMoveHandler ==
    /\ phase \in Live
    /\ LET hovered == title_bar_hovered_button
       IN  \E o \in (IF hovered # "None" THEN TitleBarOutcomes ELSE {"-"}) :
              LET out == MouseMoveOutcome(hovered, win32_titlebar_rect(o))
              IN  /\ last' = Handled("WM_MOUSEMOVE", hovered, "-", NoPoint,
                                     IF o \in {"ok", "-"} THEN o ELSE "fail",
                                     "-", NoRect, out)
                  /\ Store(out)
    /\ UNCHANGED <<phase, hostVars>>

NcLButtonDownHandler ==
    /\ phase \in Live
    /\ \E hit \in {"HTCAPTION", "HTMAXBUTTON"}, c \in ClickProbes :
         LET out == NcLButtonDownOutcome(title_bar_hovered_button)
         IN  /\ last' = Handled("WM_NCLBUTTONDOWN", title_bar_hovered_button, hit, c,
                                "-", "-", NoRect, out)
             /\ Store(out)
    /\ UNCHANGED <<phase, hostVars>>

\* Variant: a release with the maximize button hovered is dispatched only
\* when the message carries the hit-test code HTMAXBUTTON.
NcLButtonUpHandler_HitAware ==
    /\ phase \in Live
    /\ \E hit \in {"HTCAPTION", "HTMAXBUTTON"}, c \in ClickProbes :
         LET hovered == title_bar_hovered_button
         IN  \E postOk \in (IF hovered = "Close" THEN BOOLEAN ELSE {TRUE}),
                placementOk \in (IF hovered = "Maximize" THEN BOOLEAN ELSE {TRUE}) :
                LET out == IF hovered = "Maximize" /\ hit # "HTMAXBUTTON"
                           THEN Forwarded
                           ELSE NcLButtonUpOutcome(hovered, postOk, placementOk)
                IN  /\ last' = Handled("WM_NCLBUTTONUP", hovered, hit, c,
                                       IF hovered \in {"Close", "Maximize"}
                                       THEN (IF postOk /\ placementOk THEN "ok" ELSE "fail")
                                       ELSE "-",
                                       "-", NoRect, out)
                    /\ Store(out)
                    /\ showCmd' = ShowCmdAfter(out.cmds)
                    /\ phase' = IF hovered = "Close" /\ postOk THEN "closing" ELSE phase
    /\ UNCHANGED <<dpi, clientSize>>

NcLButtonUpHandler ==
    /\ phase \in Live
    /\ \E hit \in {"HTCAPTION", "HTMAXBUTTON"}, c \in ClickProbes :
         LET hovered == title_bar_hovered_button
         IN  \E postOk \in (IF hovered = "Close" THEN BOOLEAN ELSE {TRUE}),
                placementOk \in (IF hovered = "Maximize" THEN BOOLEAN ELSE {TRUE}) :
                LET out == NcLButtonUpOutcome(hovered, postOk, placementOk)
                IN  /\ last' = Handled("WM_NCLBUTTONUP", hovered, hit, c,
                                       IF hovered \in {"Close", "Maximize"}
                                       THEN (IF postOk /\ placementOk THEN "ok" ELSE "fail")
                                       ELSE "-",
                                       "-", NoRect, out)
                    /\ Store(out)
                    /\ showCmd' = ShowCmdAfter(out.cmds)
                    /\ phase' = IF hovered = "Close" /\ postOk THEN "closing" ELSE phase
    /\ UNCHANGED <<dpi, clientSize>>

SetCursorHandler ==
    /\ phase \in Live
    /\ \E cursorOk \in BOOLEAN :
         LET out == SetCursorOutcome(cursorOk)
         IN  /\ last' = Handled("WM_SETCURSOR", title_bar_hovered_button, "-", NoPoint,
                                IF cursorOk THEN "ok" ELSE "fail", "-", NoRect, out)
             /\ Store(out)
    /\ UNCHANGED <<phase, hostVars>>

DestroyHandler ==
    /\ phase = "destroying"
    /\ last' = Handled("WM_DESTROY", title_bar_hovered_button, "-", NoPoint, "-", "-",
                       NoRect, DestroyOutcome)
    /\ Store(DestroyOutcome)
    /\ phase' = "destroyed"
    /\ UNCHANGED hostVars

\* Messages the window procedure has no arm for.  The host has already
\* changed what the message reports: WM_SIZE the client size and placement,
\* WM_DPICHANGED the DPI and with it the size; default handling of WM_CLOSE
\* destroys the window.
OtherHandler ==
    /\ phase \in Live \cup {"closing"}
    /\ \E msg \in (IF phase = "closing" THEN {"WM_CLOSE"}
                   ELSE {"WM_SIZE", "WM_DPICHANGED", "WM_CLOSE", "WM_TIMER"}) :
         /\ last' = Handled(msg, title_bar_hovered_button, "-", NoPoint, "-", "-",
                            NoRect, OtherOutcome)
         /\ Store(OtherOutcome)
         /\ CASE msg = "WM_SIZE" ->
                    /\ \E l \in Layouts : l[1] = dpi /\ clientSize' = l[2]
                    /\ showCmd' \in ShowCmds
                    /\ UNCHANGED dpi
              [] msg = "WM_DPICHANGED" ->
                    /\ \E l \in Layouts : dpi' = l[1] /\ clientSize' = l[2]
                    /\ UNCHANGED showCmd
              [] OTHER -> UNCHANGED hostVars
         /\ phase' = IF msg = "WM_CLOSE" THEN "destroying" ELSE phase

WmNcCalcSize    == NcCalcSizeHandler /\ UNCHANGED scen
WmCreate        == CreateHandler /\ UNCHANGED scen
WmActivate      == ActivateHandler /\ UNCHANGED scen
WmNcHitTest     == NcHitTestHandler /\ UNCHANGED scen
WmPaint         == PaintHandler /\ UNCHANGED scen
WmNcMouseMove   == NcMouseMoveHandler /\ UNCHANGED scen
WmMouseMove     == MouseMoveHandler /\ UNCHANGED scen
WmNcLButtonDown == NcLButtonDownHandler /\ UNCHANGED scen
WmNcLButtonUp   == NcLButtonUpHandler /\ UNCHANGED scen
WmSetCursor     == SetCursorHandler /\ UNCHANGED scen
WmDestroy       == DestroyHandler /\ UNCHANGED scen
WmOther         == OtherHandler /\ UNCHANGED scen

Next ==
    \/ WmNcCalcSize
    \/ WmCreate
    \/ WmActivate
    \/ WmNcHitTest
    \/ WmPaint
    \/ WmNcMouseMove
    \/ WmMouseMove
    \/ WmNcLButtonDown
    \/ WmNcLButtonUp
    \/ WmSetCursor
    \/ WmDestroy
    \/ WmOther

Spec == Init /\ [][Next]_vars

(***************************************************************************)
(* The layout as the design describes it, written out in plain arithmetic  *)
(* for use in the properties below.                                        *)
(***************************************************************************)
RefButtonWidth == (47 * dpi) \div 96
RefTitleBarBottom == ((titlebar_size_cy * dpi) \div 96) + 2
RefTitleBar == Rect(0, 0, clientSize[1], RefTitleBarBottom)
RefClose    == Rect(clientSize[1] - RefButtonWidth, 1, clientSize[1], RefTitleBarBottom)
RefMaximize == Rect(clientSize[1] - 2 * RefButtonWidth, 1,
                    clientSize[1] - RefButtonWidth, RefTitleBarBottom)
RefMinimize == Rect(clientSize[1] - 3 * RefButtonWidth, 1,
                    clientSize[1] - 2 * RefButtonWidth, RefTitleBarBottom)
RefInside(r, p) == r.left <= p[1] /\ p[1] < r.right /\ r.top <= p[2] /\ p[2] < r.bottom
RefRegion(p) ==
    IF RefInside(RefMinimize, p) THEN "Minimize"
    ELSE IF RefInside(RefMaximize, p) THEN "Maximize"
    ELSE IF RefInside(RefClose, p) THEN "Close"
    ELSE "None"
RefBand == ((4 * dpi + 48) \div 96) + ((4 * dpi + 48) \div 96)
ResizeOrOutside == {"HTNOWHERE", "HTRIGHT", "HTLEFT", "HTTOPLEFT", "HTTOP",
                    "HTTOPRIGHT", "HTBOTTOMRIGHT", "HTBOTTOM", "HTBOTTOMLEFT"}
StoredHover == HoveredFromIsize(userData)

(***************************************************************************)
(* The hover-crossing scenario: pointer moves only, on a window that is    *)
(* up, with a history of the stored state's changes.  scen.stage counts    *)
(* the positions of ScenarioPath visited so far (-1 once a move leaves the *)
(* path or a host query fails); scen.changes lists the changes of the      *)
(* stored state; exact, all and quiet record what each move invalidated.   *)
(***************************************************************************)
MaxChanges == 5

ScenarioPath == <<"None", "Minimize", "Maximize", "Close", "None">>
ScenarioChanges == <<(<<"None", "Minimize">>), (<<"Minimize", "Maximize">>),
                     (<<"Maximize", "Close">>), (<<"Close", "None">>)>>

ScenOff == [stage |-> -1, changes |-> <<>>, exact |-> TRUE, all |-> TRUE,
            quiet |-> TRUE]

\* The rectangle of a button, none for None.
ButtonRectOf(b) ==
    CASE b = "Close"    -> {RefClose}
      [] b = "Maximize" -> {RefMaximize}
      [] b = "Minimize" -> {RefMinimize}
      [] OTHER          -> {}

\* The position of a move: the button under the cursor of a non-client
\* move; a client-area move is outside all buttons.
MovedOver(m) ==
    IF m.msg = "WM_NCMOUSEMOVE"
    THEN RefRegion(m.pt)
    ELSE "None"

ScenStep ==
    LET m       == last'
        region  == MovedOver(m)
        from    == HoveredFromIsize(userData)
        to      == HoveredFromIsize(userData')
        again   == scen.stage >= 1 /\ region = ScenarioPath[scen.stage]
        advance == scen.stage < Len(ScenarioPath)
                     /\ region = ScenarioPath[scen.stage + 1]
        changed == from # to
    IN  scen' =
          IF scen.stage < 0 \/ m.q = "fail" \/ ~(again \/ advance)
          THEN ScenOff
          ELSE [stage   |-> IF again THEN scen.stage ELSE scen.stage + 1,
                changes |-> IF changed /\ Len(scen.changes) < MaxChanges
                            THEN Append(scen.changes, <<from, to>>)
                            ELSE scen.changes,
                exact   |-> scen.exact /\ (changed =>
                              m.inval = ButtonRectOf(from) \cup ButtonRectOf(to)),
                all     |-> scen.all /\ (changed =>
                              m.inval = IF m.msg = "WM_NCMOUSEMOVE"
                                        THEN {RefClose, RefMinimize, RefMaximize}
                                        ELSE {RefTitleBar}),
                quiet   |-> scen.quiet /\ (~changed => m.inval = {} /\ ~m.wrote)]

InitHover ==
    /\ userData = 0
    /\ phase = "running"
    /\ \E l \in Layouts : dpi = l[1] /\ clientSize = l[2]
    /\ showCmd = "SW_SHOWNORMAL"
    /\ last = Handled("-", "None", "-", NoPoint, "-", "-", NoRect, Forwarded)
    /\ scen = [stage |-> 0, changes |-> <<>>, exact |-> TRUE, all |-> TRUE,
               quiet |-> TRUE]

HoverNcMouseMove == NcMouseMoveHandler /\ ScenStep
HoverMouseMove   == MouseMoveHandler /\ ScenStep

NextHover ==
    \/ HoverNcMouseMove
    \/ HoverMouseMove

SpecHover == InitHover /\ [][NextHover]_vars

(***************************************************************************)
(* The pure helpers on their own: the layout calculator, the DPI scaler,   *)
(* the size adjustment and the bit helpers, applied to inputs drawn from   *)
(* bounded sets.  Each behaviour applies one helper to one input; `last`   *)
(* holds the input and the result.                                         *)
(***************************************************************************)
\* DPI settings from 100% to 200%.
PureDpis == {96, 120, 144, 192}

\* Client sizes: empty, narrower than three buttons, just wide enough at
\* 96 DPI (141) and at 144 DPI (210), and ordinary ones.
PureSizes == {0, 120, 140, 141, 210, 282, 800} \X {0, 40, 600}

\* <<value, dpi>> for the scaler: small values at every DPI, and values
\* around 2^24, where an f32 stops holding every integer, at the DPIs that
\* keep the product below 2^31.
ScaleInputs ==
    ({0, 1, 10, 32, 47, 95, 96, 97, 1000} \X (PureDpis \cup {48, 72, 95, 97}))
        \cup ({16777215, 16777216, 16777217, 16777219} \X {96, 120})

\* Proposed rectangles for the size adjustment, all with left <= right and
\* top <= bottom: an ordinary one, a maximized one, a thin and an empty one.
PureProposed == {Rect(100, 100, 900, 700), Rect(-8, -8, 1928, 1048),
                 Rect(0, 0, 10, 10), Rect(5, 5, 5, 5)}

\* Coordinates at the ends and the middle of the i16 range.
PureCoords == {-32768, -32767, -256, -1, 0, 1, 255, 256, 32766, 32767}

\* Values of bits 32..63 of an LPARAM.
PureTops == {0, 1, 2147483647}

\* Colour channel values.
PureBytes == {0, 1, 127, 128, 254, 255}

\* Outer rectangles for centering: button rectangles (one partly left of
\* the client area), a small square and an empty one.
PureOuters == {Rect(659, 1, 706, 34), Rect(-21, 1, 26, 34), Rect(0, 0, 10, 10),
               Rect(5, 5, 5, 5)}

\* Rectangles to center: the icon rectangles of the paint arm at 96 and 144
\* DPI, odd and even sizes, an empty one, and one larger than every outer.
PureInners == {Rect(0, 0, 10, 1), Rect(0, 0, 10, 10), Rect(0, 0, 15, 15),
               Rect(0, 0, 11, 7), Rect(0, 0, 0, 0), Rect(3, 4, 63, 54)}

InitPure ==
    /\ userData = 0
    /\ phase = "pure"
    /\ \E d \in PureDpis, sz \in PureSizes : dpi = d /\ clientSize = sz
    /\ showCmd \in {"SW_SHOWNORMAL", "SW_SHOWMAXIMIZED"}
    /\ last = [op |-> "-"]
    /\ scen = ScenOff

\* win32_dpi_scale(value, dpi)
ApplyDpiScale ==
    /\ last.op = "-"
    /\ \E in \in ScaleInputs :
         last' = [op |-> "win32_dpi_scale", value |-> in[1], dpi |-> in[2],
                  result |-> win32_dpi_scale(in[1], in[2])]
    /\ UNCHANGED <<userData, phase, hostVars, scen>>

\* win32_titlebar_rect, win32_get_title_bar_button_rects,
\* win32_fake_shadow_rect and titlebar_text_rect on the current client
\* rectangle and DPI, every host query succeeding.
ApplyLayout ==
    /\ last.op = "-"
    /\ LET tb == win32_titlebar_rect("ok").rect
           button_rects == win32_get_title_bar_button_rects(tb)
       IN  last' = [op |-> "layout", client |-> GetClientRect, title_bar |-> tb,
                    close |-> button_rects.close,
                    maximize |-> button_rects.maximize,
                    minimize |-> button_rects.minimize,
                    shadow |-> win32_fake_shadow_rect,
                    text |-> titlebar_text_rect(tb, button_rects)]
    /\ UNCHANGED <<userData, phase, hostVars, scen>>

\* The rectangle adjustment of the WM_NCCALCSIZE arm.
ApplyNcCalcSize ==
    /\ last.op = "-"
    /\ \E rc \in PureProposed, placementOk \in BOOLEAN :
         last' = [op |-> "WM_NCCALCSIZE", rc |-> rc, placementOk |-> placementOk,
                  result |-> NcCalcSizeRect(rc, placementOk)]
    /\ UNCHANGED <<userData, phase, hostVars, scen>>

\* get_x_param and get_y_param on a packed screen point, with anything in
\* the upper half of the LPARAM.
ApplyGetParam ==
    /\ last.op = "-"
    /\ \E x \in PureCoords, y \in PureCoords, top \in PureTops :
         LET l_param == [MakeLParam(x, y) EXCEPT !.top = top]
         IN  last' = [op |-> "get_param", x |-> x, y |-> y, l_param |-> l_param,
                      get_x |-> get_x_param(l_param),
                      get_y |-> get_y_param(l_param)]
    /\ UNCHANGED <<userData, phase, hostVars, scen>>

\* rgb and the three channel extractors.
ApplyRgb ==
    /\ last.op = "-"
    /\ \E r \in PureBytes, g \in PureBytes, b \in PureBytes :
         LET v == rgb(r, g, b)
         IN  last' = [op |-> "rgb", r |-> r, g |-> g, b |-> b, packed |-> v,
                      get_r |-> get_r_value(v), get_g |-> get_g_value(v),
                      get_b |-> get_b_value(v)]
    /\ UNCHANGED <<userData, phase, hostVars, scen>>

\* win32_center_rect_in_rect(&mut to_center, &outer_rect)
ApplyCenterRect ==
    /\ last.op = "-"
    /\ \E to_center \in PureInners, outer_rect \in PureOuters :
         last' = [op |-> "win32_center_rect_in_rect", to_center |-> to_center,
                  outer_rect |-> outer_rect,
                  result |-> win32_center_rect_in_rect(to_center, outer_rect)]
    /\ UNCHANGED <<userData, phase, hostVars, scen>>

NextPure ==
    \/ ApplyDpiScale
    \/ ApplyLayout
    \/ ApplyNcCalcSize
    \/ ApplyGetParam
    \/ ApplyCenterRect
    \/ ApplyRgb

SpecPure == InitPure /\ [][NextPure]_vars

(***************************************************************************)
(* Pointer moves as the host routes them: it first asks for a hit-test at  *)
(* the pointer position, then delivers WM_NCMOUSEMOVE when the answer is a *)
(* non-client code, WM_MOUSEMOVE when it is HTCLIENT, and nothing when it  *)
(* is HTNOWHERE.  scen holds the move being routed: its stage ("idle", or  *)
(* "hit" once the hit-test is answered), the position, the host's          *)
(* classification and the handler's answer; sticky says the hit-test was   *)
(* handled with stored hover Maximize for a position on the window and     *)
(* outside the maximize button; released says the move delivered last was  *)
(* such a move with its host queries succeeding; after says the hit-test   *)
(* answered last directly followed such a move.                            *)
(***************************************************************************)
RouteIdle == [stage |-> "idle", pt |-> NoPoint, hit |-> "-", ret |-> "-",
              sticky |-> FALSE, released |-> FALSE, after |-> FALSE]

InitRoute ==
    /\ userData = 0
    /\ phase = "running"
    /\ \E l \in Layouts : dpi = l[1] /\ clientSize = l[2]
    /\ showCmd = "SW_SHOWNORMAL"
    /\ last = Handled("-", "None", "-", NoPoint, "-", "-", NoRect, Forwarded)
    /\ scen = RouteIdle

\* The hit-test that opens a pointer move, at a position the move can report.
RouteNcHitTest ==
    /\ scen.stage = "idle"
    /\ NcHitTestHandler
    /\ last'.pt \in MoveProbes
    /\ scen' = [stage    |-> IF last'.ret = "HTNOWHERE" THEN "idle" ELSE "hit",
                pt       |-> last'.pt,
                hit      |-> last'.hit,
                ret      |-> last'.ret,
                sticky   |-> /\ last'.hover = "Maximize"
                             /\ last'.hit # "HTNOWHERE"
                             /\ ~RefInside(RefMaximize, last'.pt)
                             /\ last'.q # "fail",
                released |-> FALSE,
                after    |-> scen.released]

\* The move delivered after a non-client answer, the cursor where the
\* hit-test saw it.
RouteNcMouseMove ==
    /\ scen.stage = "hit" /\ scen.ret # "HTCLIENT"
    /\ NcMouseMoveHandler
    /\ last'.q = "fail" \/ last'.pt = scen.pt
    /\ scen' = [RouteIdle EXCEPT !.released = scen.sticky /\ last'.q = "ok"]

\* The move delivered after the answer HTCLIENT.
RouteMouseMove ==
    /\ scen.stage = "hit" /\ scen.ret = "HTCLIENT"
    /\ MouseMoveHandler
    /\ scen' = [RouteIdle EXCEPT !.released = scen.sticky /\ last'.q # "fail"]

NextRoute ==
    \/ RouteNcHitTest
    \/ RouteNcMouseMove
    \/ RouteMouseMove

SpecRoute == InitRoute /\ [][NextRoute]_vars

(***************************************************************************)
(* The display.  A repaint request (InvalidateRect) adds a rectangle to    *)
(* the update region; the host delivers WM_PAINT while the region is not   *)
(* empty; BeginPaint empties it and clips all drawing to it.  A change of  *)
(* the client size invalidates the whole client area (class style          *)
(* CS_HREDRAW | CS_VREDRAW), and so does a change of DPI, which changes    *)
(* the frame widths WM_NCCALCSIZE takes from the window and with them the  *)
(* client size.  scen holds: dirty, the update region as a set of          *)
(* rectangles; shown, the fill on screen under each button ("unknown"      *)
(* where the button's area was not drawn whole in the current layout);     *)
(* resized, the layout changed since the last paint; failed, a host query  *)
(* has failed; held, the handles the paint handled last left open.         *)
(***************************************************************************)
Contains(d, r) ==
    /\ d.left <= r.left /\ r.right <= d.right
    /\ d.top <= r.top /\ r.bottom <= d.bottom

Intersects(d, r) ==
    /\ d.left < r.right /\ r.left < d.right
    /\ d.top < r.bottom /\ r.top < d.bottom

Max2(a, b) == IF a >= b THEN a ELSE b
Min2(a, b) == IF a <= b THEN a ELSE b

\* The part of a rectangle inside the client area.
Clip(r) ==
    LET c == GetClientRect
    IN  Rect(Max2(r.left, c.left), Max2(r.top, c.top),
             Min2(r.right, c.right), Min2(r.bottom, c.bottom))

\* The update region without the rectangles another of its rectangles covers.
Normalize(S) == {r \in S : ~\E d \in S : d # r /\ Contains(d, r)}

ButtonNames == {"minimize", "maximize", "close"}

Covered(b)  == \E d \in scen.dirty : Contains(d, Clip(CurButtons[b]))
Touched(b)  == \E d \in scen.dirty : Intersects(d, Clip(CurButtons[b]))

InitPaint ==
    /\ userData = 0
    /\ phase = "running"
    /\ \E l \in Layouts : dpi = l[1] /\ clientSize = l[2]
    /\ showCmd = "SW_SHOWNORMAL"
    /\ last = Handled("-", "None", "-", NoPoint, "-", "-", NoRect, Forwarded)
    /\ scen = [dirty |-> {GetClientRect},
               shown |-> [b \in ButtonNames |-> "unknown"],
               resized |-> FALSE, failed |-> FALSE, held |-> {}]

\* The update region after the InvalidateRect calls of the handled message.
Invalidated ==
    scen' = [scen EXCEPT !.dirty  = Normalize(scen.dirty \cup last'.inval),
                         !.failed = scen.failed \/ last'.q = "fail",
                         !.held   = {}]

\* The display is followed up to the first failure of a host query.
DisplayNcMouseMove == ~scen.failed /\ NcMouseMoveHandler /\ Invalidated
DisplayMouseMove   == ~scen.failed /\ MouseMoveHandler /\ Invalidated
DisplayActivate    == ~scen.failed /\ ActivateHandler /\ Invalidated

\* WM_SIZE or WM_DPICHANGED: the handler forwards it; the host has marked
\* the whole client area when the layout changed.
DisplayResize ==
    /\ ~scen.failed
    /\ OtherHandler
    /\ last'.msg \in {"WM_SIZE", "WM_DPICHANGED"}
    /\ LET changed == <<dpi', clientSize'>> # <<dpi, clientSize>>
       IN  scen' = [scen EXCEPT
                      !.dirty   = IF changed
                                  THEN {Rect(0, 0, clientSize'[1], clientSize'[2])}
                                  ELSE scen.dirty,
                      !.shown   = IF changed THEN [b \in ButtonNames |-> "unknown"]
                                  ELSE scen.shown,
                      !.resized = scen.resized \/ changed,
                      !.held    = {}]

\* WM_PAINT, delivered while the update region is not empty.  The
\* background fill covers the region before the title-bar query; the
\* buttons are drawn after it, clipped to the region.
DisplayPaint ==
    /\ phase \in Live
    /\ ~scen.failed
    /\ scen.dirty # {}
    /\ \E o \in TitleBarOutcomes :
         \E fontOk, shadowOk \in (IF o = "ok" THEN BOOLEAN ELSE {TRUE}) :
            LET h == PaintHandles(title_bar_hovered_button, o, fontOk, shadowOk)
                fill == PaintFill(title_bar_hovered_button)
            IN  /\ PaintWith(o, fontOk, shadowOk)
                /\ scen' = [dirty |-> {},
                            shown |-> [b \in ButtonNames |->
                                         IF Covered(b)
                                         THEN (IF o = "ok" THEN fill[b] ELSE "none")
                                         ELSE IF Touched(b) THEN "unknown"
                                         ELSE scen.shown[b]],
                            resized |-> FALSE,
                            failed |-> scen.failed \/ o # "ok" \/ ~shadowOk,
                            held |-> h.acquired \ h.released]
    /\ UNCHANGED <<phase, hostVars>>

NextPaint ==
    \/ DisplayNcMouseMove
    \/ DisplayMouseMove
    \/ DisplayActivate
    \/ DisplayResize
    \/ DisplayPaint

SpecPaint == InitPaint /\ [][NextPaint]_vars

(***************************************************************************)
(* Clicks compared.  The pointer moves set the hover state; presses and    *)
(* releases arrive with any hit-test code and position, also ones the      *)
(* stored state no longer matches.  scen.kept is one earlier press or      *)
(* release of the run, kept to compare with the one handled last; the      *)
(* clicks compared are handled with the same stored state, so the moves    *)
(* come before the kept one.                                               *)
(***************************************************************************)
NoClick == Handled("-", "None", "-", NoPoint, "-", "-", NoRect, Forwarded)

InitClick ==
    /\ userData = 0
    /\ phase = "running"
    /\ \E l \in Layouts : dpi = l[1] /\ clientSize = l[2]
    /\ showCmd = "SW_SHOWNORMAL"
    /\ last = NoClick
    /\ scen = [kept |-> NoClick]

\* The earlier click stays, or the click just handled replaces it.
Keep == scen' = scen \/ scen' = [kept |-> last']

\* The moves that change the hover state, along the button row, up to the
\* click that is kept.
ClickNcMouseMove ==
    /\ scen.kept = NoClick
    /\ NcMouseMoveHandler
    /\ last'.wrote /\ last'.pt[2] = 1
    /\ last'.pt[1] \in InsideXs \cup {CurButtons.minimize.left - 1}
    /\ UNCHANGED scen
ClickNcLButtonDown == NcLButtonDownHandler /\ Keep
ClickNcLButtonUp   == NcLButtonUpHandler /\ Keep

NextClick ==
    \/ ClickNcMouseMove
    \/ ClickNcLButtonDown
    \/ ClickNcLButtonUp

SpecClick == InitClick /\ [][NextClick]_vars

(***************************************************************************)
(* Hit-test properties.                                                    *)
(***************************************************************************)
\* C1: a hit-test handled with stored hover Maximize, on a point the host
\* classifies as neither outside nor a resize edge or corner, returns the
\* maximize-button region whatever the cursor position.
C1_StickyMaximize ==
    (last.msg = "WM_NCHITTEST" /\ last.hover = "Maximize"
        /\ last.hit \notin ResizeOrOutside)
    => last.ret = "HTMAXBUTTON"

\* C1 witness: hover Maximize and a point inside the top resize band.
C1_Witness ==
    /\ last.msg = "WM_NCHITTEST" /\ last.hover = "Maximize"
    /\ last.hit = "HTCLIENT"
    /\ last.pt[2] > 0 /\ last.pt[2] < RefBand
    /\ last.ret = "HTMAXBUTTON"

\* C2 as stated: with stored hover Maximize no hit-test returns caption or
\* top resize edge, and a host classification of top-only yields
\* maximize-button.
C2_Original ==
    (last.msg = "WM_NCHITTEST" /\ last.hover = "Maximize")
    => /\ last.ret \notin {"HTCAPTION", "HTTOP"}
       /\ (last.hit = "HTTOP" => last.ret = "HTMAXBUTTON")

\* C2 amended: with stored hover Maximize a hit-test never returns caption,
\* and returns top resize edge exactly when the host itself classified the
\* point as top-only, which is part of the pass-through.
C2_NeverCaptionTopOnlyFromHost ==
    (last.msg = "WM_NCHITTEST" /\ last.hover = "Maximize")
    => /\ last.ret # "HTCAPTION"
       /\ (last.ret = "HTTOP" <=> last.hit = "HTTOP")

\* C2 witness: hover Maximize and the host says top-only.
C2_Witness ==
    /\ last.msg = "WM_NCHITTEST" /\ last.hover = "Maximize"
    /\ last.hit = "HTTOP" /\ last.ret = "HTTOP"

\* C3 as stated: rows 0 through frame height + padding - 1 are the top
\* resize edge.
C3_Original ==
    (last.msg = "WM_NCHITTEST" /\ last.hit \notin ResizeOrOutside
        /\ last.hover # "Maximize"
        /\ last.pt[2] >= 0 /\ last.pt[2] <= RefBand - 1)
    => last.ret = "HTTOP"

\* C3 amended: rows 1 through frame height + padding - 1 are the top resize
\* edge; row 0 is not.
C3_TopBandFromRowOne ==
    (last.msg = "WM_NCHITTEST" /\ last.hit \notin ResizeOrOutside
        /\ last.hover # "Maximize")
    => /\ (last.pt[2] >= 1 /\ last.pt[2] <= RefBand - 1) => last.ret = "HTTOP"
       /\ last.pt[2] = 0 => last.ret # "HTTOP"

\* C3 witness: the last row of the band.
C3_Witness ==
    /\ last.msg = "WM_NCHITTEST" /\ last.hit = "HTCLIENT" /\ last.hover = "None"
    /\ last.pt[2] = RefBand - 1 /\ last.ret = "HTTOP"

\* A hit-test that reached the caption/client split.
ReachedSplit ==
    /\ last.msg = "WM_NCHITTEST" /\ last.hit \notin ResizeOrOutside
    /\ last.hover # "Maximize"
    /\ ~(last.pt[2] > 0 /\ last.pt[2] < RefBand)

\* C4 as stated: caption exactly when titleBar.top <= y < titleBar.bottom,
\* client otherwise (read with the title bar query succeeding).
C4_Original ==
    (ReachedSplit /\ last.q = "ok")
    => IF RefTitleBar.top <= last.pt[2] /\ last.pt[2] < RefTitleBar.bottom
       THEN last.ret = "HTCAPTION" ELSE last.ret = "HTCLIENT"

\* C4 amended: when the title bar query succeeds, caption exactly when
\* y < titleBar.bottom (there is no test against titleBar.top) and client
\* otherwise, also over the minimize and close rectangles; when the query
\* fails, the host's own classification.
C4_CaptionAboveBottom ==
    ReachedSplit
    => /\ last.q = "ok" =>
            IF last.pt[2] < RefTitleBar.bottom
            THEN last.ret = "HTCAPTION" ELSE last.ret = "HTCLIENT"
       /\ last.q # "ok" => last.ret = last.hit

\* C4 witness: a point inside the close rectangle, reported as caption.
C4_Witness ==
    /\ ReachedSplit /\ last.q = "ok"
    /\ RefInside(RefClose, last.pt) /\ last.ret = "HTCAPTION"

(***************************************************************************)
(* Hover tracking properties.                                              *)
(***************************************************************************)
\* C5: after a non-client pointer-move with all host queries succeeding the
\* stored hover state is the button whose rectangle contains the cursor,
\* whatever was stored before.
C5_HoverIsButtonUnderCursor ==
    (last.msg = "WM_NCMOUSEMOVE" /\ last.q = "ok")
    => StoredHover = RefRegion(last.pt)

\* C5 witness: the stored state jumps from Minimize to Close.
C5_Witness ==
    /\ last.msg = "WM_NCMOUSEMOVE" /\ last.q = "ok"
    /\ last.hover = "Minimize" /\ StoredHover = "Close"
    /\ RefInside(RefClose, last.pt)

\* C6: a non-client pointer-move requests repaint exactly when the computed
\* button differs from the stored one; then all three button rectangles are
\* invalidated and the state is written; otherwise nothing is invalidated
\* and nothing written.
C6_RepaintIffChanged ==
    last.msg = "WM_NCMOUSEMOVE"
    => /\ last.inval # {} <=> (last.q = "ok" /\ last.new # last.hover)
       /\ (last.q = "ok" /\ last.new # last.hover)
            => /\ last.inval = {RefClose, RefMinimize, RefMaximize}
               /\ last.wrote /\ StoredHover = last.new
       /\ (last.q = "ok" /\ last.new = last.hover)
            => /\ last.inval = {} /\ ~last.wrote /\ StoredHover = last.hover

\* C6 witness: one move that changed the button and repainted.
C6_Witness ==
    /\ last.msg = "WM_NCMOUSEMOVE" /\ last.q = "ok"
    /\ last.hover = "None" /\ last.new = "Maximize"
    /\ last.inval = {RefClose, RefMinimize, RefMaximize}

\* C7 as stated: a client-area pointer-move with stored hover not None
\* invalidates the title bar and stores None; with None it does nothing;
\* either way the message goes to default handling.
C7_Original ==
    last.msg = "WM_MOUSEMOVE"
    => /\ last.hover # "None"
            => last.inval = {RefTitleBar} /\ last.wrote /\ StoredHover = "None"
       /\ last.hover = "None" => last.inval = {} /\ ~last.wrote
       /\ last.def

\* C7 amended: the repaint and the reset happen when the title bar query
\* succeeds; when it fails, or the stored state is None, nothing is
\* invalidated or written; in every case default handling follows.
C7_ResetWhenQuerySucceeds ==
    last.msg = "WM_MOUSEMOVE"
    => /\ (last.hover # "None" /\ last.q = "ok")
            => last.inval = {RefTitleBar} /\ last.wrote /\ StoredHover = "None"
       /\ (last.hover = "None" \/ last.q = "fail")
            => last.inval = {} /\ ~last.wrote /\ StoredHover = last.hover
       /\ last.def

\* C7 witness: a client-area move that reset a hovered close button.
C7_Witness ==
    /\ last.msg = "WM_MOUSEMOVE" /\ last.hover = "Close" /\ last.q = "ok"
    /\ StoredHover = "None" /\ last.inval = {RefTitleBar}

Prefix(sq, n) == SubSeq(sq, 1, n)

\* C8 as stated: the five-position crossing produces exactly the four
\* changes None->Minimize->Maximize->Close->None, each with a repaint request
\* for exactly the rectangles of the button left and the button entered,
\* and moves that change nothing request nothing.
C8_Original ==
    scen.stage = Len(ScenarioPath)
    => scen.changes = ScenarioChanges /\ scen.exact /\ scen.quiet

\* C8 amended: with host queries succeeding the crossing produces exactly
\* those four changes, one on entering each new position after the first;
\* each change made by a non-client move comes with a repaint request for
\* all three button rectangles, and one made by a client-area move with a
\* request for the whole title bar rectangle; moves that change nothing
\* request nothing and write nothing.
C8_FourChangesRepaintAll ==
    scen.stage >= 1
    => /\ scen.changes = Prefix(ScenarioChanges, scen.stage - 1)
       /\ scen.all /\ scen.quiet

\* C8 witness: the crossing completed with its four changes.
C8_Witness ==
    /\ scen.stage = Len(ScenarioPath)
    /\ Len(scen.changes) = 4
    /\ StoredHover = "None"

(***************************************************************************)
(* Command dispatch properties.                                            *)
(***************************************************************************)
\* C9: only the two pointer-move handlers write the stored hover state;
\* every other message leaves it as it was, a completed click included.
C9_HoverWrittenOnlyByMoves ==
    [][last'.msg \notin {"WM_NCMOUSEMOVE", "WM_MOUSEMOVE"}
         => (userData' = userData /\ ~last'.wrote)]_vars

\* C9 witness: a release that issued the close request and left the stored
\* state at Close.
C9_Witness ==
    /\ last.msg = "WM_NCLBUTTONUP" /\ last.hover = "Close"
    /\ last.cmds = <<"PostMessage(WM_CLOSE)">>
    /\ StoredHover = "Close"

\* C10 as stated: Close, Minimize and Maximize each issue their one command
\* (Maximize: restore when the window is maximized, else maximize) without
\* default handling; None issues nothing and is forwarded.
C10_Original ==
    last.msg = "WM_NCLBUTTONUP"
    => /\ last.hover = "Close"
            => last.cmds = <<"PostMessage(WM_CLOSE)">> /\ ~last.def
       /\ last.hover = "Minimize"
            => last.cmds = <<"ShowWindow(SW_MINIMIZE)">> /\ ~last.def
       /\ last.hover = "Maximize"
            => /\ last.cmds = IF last.max THEN <<"ShowWindow(SW_NORMAL)">>
                              ELSE <<"ShowWindow(SW_MAXIMIZE)">>
               /\ ~last.def
       /\ last.hover = "None" => last.cmds = <<>> /\ last.def

\* C10 amended: Close posts exactly one close request and skips default
\* handling when the post succeeds, and falls back to default handling when
\* it fails; Minimize issues exactly one minimize request; Maximize issues
\* exactly one restore request when the placement query succeeds and
\* reports maximized, and exactly one maximize request otherwise (not
\* maximized, or the query failed); neither invokes default handling; None
\* issues nothing and is forwarded.
C10_DispatchOnRelease ==
    last.msg = "WM_NCLBUTTONUP"
    => /\ last.hover = "Close"
            => /\ last.cmds = <<"PostMessage(WM_CLOSE)">>
               /\ last.def <=> last.q = "fail"
       /\ last.hover = "Minimize"
            => last.cmds = <<"ShowWindow(SW_MINIMIZE)">> /\ ~last.def
       /\ last.hover = "Maximize"
            => /\ last.cmds = IF last.max /\ last.q = "ok"
                              THEN <<"ShowWindow(SW_NORMAL)">>
                              ELSE <<"ShowWindow(SW_MAXIMIZE)">>
               /\ ~last.def
       /\ last.hover = "None" => last.cmds = <<>> /\ last.def

\* C10 witness: a release over a hovered maximize button on a maximized
\* window, restoring it.
C10_Witness ==
    /\ last.msg = "WM_NCLBUTTONUP" /\ last.hover = "Maximize" /\ last.max
    /\ last.cmds = <<"ShowWindow(SW_NORMAL)">> /\ ~last.def
    /\ showCmd = "SW_SHOWNORMAL"

\* C11: a window command is issued only while handling WM_NCLBUTTONUP; a
\* press with a button hovered returns 0 with no default handling and no
\* command; a press with nothing hovered is forwarded to default handling.
C11_CommandsOnlyOnRelease ==
    /\ last.cmds # <<>> => last.msg = "WM_NCLBUTTONUP"
    /\ (last.msg = "WM_NCLBUTTONDOWN" /\ last.hover # "None")
          => (~last.def /\ last.ret = "0" /\ last.cmds = <<>>)
    /\ (last.msg = "WM_NCLBUTTONDOWN" /\ last.hover = "None")
          => (last.def /\ last.cmds = <<>>)

\* C11 witness: a press over the hovered minimize button, swallowed, on a
\* window that is still not minimized.
C11_Witness ==
    /\ last.msg = "WM_NCLBUTTONDOWN" /\ last.hover = "Minimize"
    /\ ~last.def /\ last.cmds = <<>>
    /\ showCmd # "SW_SHOWMINIMIZED"

(***************************************************************************)
(* Layout properties.                                                      *)
(***************************************************************************)
\* C12: when the client rectangle is at least three scaled button widths
\* wide, the three button rectangles each have width floor(47 * dpi / 96),
\* are contiguous and non-overlapping in the order minimize, maximize,
\* close from left to right, share top and bottom, lie inside the title bar
\* rectangle, and close ends at the title bar's right edge.
C12_ButtonLayout ==
    (last.op = "layout"
        /\ last.client.right - last.client.left >= 3 * RefButtonWidth)
    => LET tb == last.title_bar
           c  == last.close
           m  == last.maximize
           n  == last.minimize
       IN  /\ c.right - c.left = RefButtonWidth
           /\ m.right - m.left = RefButtonWidth
           /\ n.right - n.left = RefButtonWidth
           /\ n.right = m.left /\ m.right = c.left
           /\ n.left < m.left /\ m.left < c.left
           /\ n.right <= m.left /\ m.right <= c.left
           /\ c.top = m.top /\ m.top = n.top
           /\ c.bottom = m.bottom /\ m.bottom = n.bottom
           /\ tb.left <= n.left /\ c.right <= tb.right
           /\ tb.top <= c.top /\ c.top <= c.bottom /\ c.bottom <= tb.bottom
           /\ c.right = tb.right

\* C12 witness: a client rectangle exactly three buttons wide at 150%, the
\* minimize button starting at the left edge.
C12_Witness ==
    /\ last.op = "layout" /\ dpi = 144 /\ last.client.right = 210
    /\ last.minimize.left = 0 /\ last.close.right = 210

\* C13 as stated: 800x600 at 96 DPI with caption height 32 gives title bar
\* height 34, button width 47 and button rectangles with top 0.
C13_Original ==
    (last.op = "layout" /\ dpi = 96 /\ last.client = Rect(0, 0, 800, 600))
    => /\ last.title_bar.bottom - last.title_bar.top = 34
       /\ last.close.right - last.close.left = 47
       /\ last.close    = Rect(753, 0, 800, 34)
       /\ last.maximize = Rect(706, 0, 753, 34)
       /\ last.minimize = Rect(659, 0, 706, 34)

\* C13 amended: the same scenario gives title bar height 34, button width
\* 47, and button rectangles whose top is 1, below the shadow row:
\* close (753,1,800,34), maximize (706,1,753,34), minimize (659,1,706,34).
C13_EndToEndLayout ==
    (last.op = "layout" /\ dpi = 96 /\ last.client = Rect(0, 0, 800, 600))
    => /\ last.title_bar = Rect(0, 0, 800, 34)
       /\ last.close.right - last.close.left = 47
       /\ last.close    = Rect(753, 1, 800, 34)
       /\ last.maximize = Rect(706, 1, 753, 34)
       /\ last.minimize = Rect(659, 1, 706, 34)

\* C13 witness: the layout of the 800x600 client rectangle at 96 DPI.
C13_Witness ==
    /\ last.op = "layout" /\ dpi = 96 /\ last.client = Rect(0, 0, 800, 600)
    /\ last.close.left = 753 /\ last.close.top = 1

(***************************************************************************)
(* Size negotiation properties.                                            *)
(***************************************************************************)
\* The proposed rectangle a WM_NCCALCSIZE carried, found from its corner.
ProposedOf(m) == CHOOSE rc \in ProposedRects : <<rc.left, rc.top>> = m.pt

\* The adjustment the design describes: left, right and bottom moved in by
\* the frame and padding, top by the padding when moveTop.
RefAdjusted(rc, moveTop) ==
    LET frame   == GetSystemMetricsForDpi("SM_CXFRAME", dpi)
        padding == GetSystemMetricsForDpi("SM_CXPADDEDBORDER", dpi)
    IN  Rect(rc.left + frame + padding,
             IF moveTop THEN rc.top + padding ELSE rc.top,
             rc.right - (frame + padding),
             rc.bottom - (frame + padding))

\* C14 as stated: with a non-zero wParam and a payload the rectangle is
\* adjusted, its top moved exactly when the window is maximized, and 0 is
\* returned without default handling; otherwise the rectangle is untouched
\* and the message forwarded.
C14_Original ==
    last.msg = "WM_NCCALCSIZE"
    => IF last.q \in {"ok", "fail"}
       THEN /\ last.rc = RefAdjusted(ProposedOf(last), last.max)
            /\ last.ret = "0" /\ ~last.def
       ELSE last.rc = ProposedOf(last) /\ last.def

\* C14 amended: the top is moved exactly when the placement query succeeds
\* and reports the window maximized; when the window is not maximized or
\* the query fails the top is left unchanged.  The rest as stated.
C14_SizeNegotiation ==
    last.msg = "WM_NCCALCSIZE"
    => IF last.q \in {"ok", "fail"}
       THEN /\ last.rc = RefAdjusted(ProposedOf(last), last.max /\ last.q = "ok")
            /\ last.ret = "0" /\ ~last.def
       ELSE last.rc = ProposedOf(last) /\ last.def

\* C14 witness: a maximized window whose proposed rectangle had its top
\* moved down by the padding.
C14_Witness ==
    /\ last.msg = "WM_NCCALCSIZE" /\ last.q = "ok" /\ last.max
    /\ last.pt = <<-8, -8>>
    /\ last.rc.top > -8 /\ last.rc.left > -8 /\ last.rc.right < 1928

\* left <= right and top <= bottom.
ValidRect(r) == r.left <= r.right /\ r.top <= r.bottom

\* C15 as stated: from a client or proposed rectangle with left <= right
\* and top <= bottom, every rectangle produced (title bar, buttons, shadow,
\* caption text, adjusted frame) has left <= right and top <= bottom.
C15_Original ==
    /\ (last.op = "layout" /\ ValidRect(last.client))
          => \A r \in {last.title_bar, last.close, last.maximize, last.minimize,
                       last.shadow, last.text} : ValidRect(r)
    /\ (last.op = "WM_NCCALCSIZE" /\ ValidRect(last.rc))
          => ValidRect(last.result)

(***************************************************************************)
(* Host query failures.                                                    *)
(***************************************************************************)
\* C16 as stated: a release over the hovered maximize button whose
\* placement query fails falls back to default handling and issues neither
\* a maximize nor a restore request.
C16_Original ==
    (last.msg = "WM_NCLBUTTONUP" /\ last.hover = "Maximize" /\ last.q = "fail")
    => (last.def /\ last.cmds = <<>>)

\* C17: when the title bar rectangle query fails in a non-client move, a
\* client move, an activation or a hit-test, the handler writes no hover
\* state, invalidates nothing, and ends in default handling, returning its
\* result (for the hit-test, the host's own classification).
C17_TitleBarFailureLeavesState ==
    (last.msg \in {"WM_NCMOUSEMOVE", "WM_MOUSEMOVE", "WM_ACTIVATE", "WM_NCHITTEST"}
        /\ last.q = "fail")
    => /\ ~last.wrote
       /\ StoredHover = last.hover
       /\ last.inval = {}
       /\ last.def
       /\ last.ret = IF last.msg = "WM_NCHITTEST" THEN last.hit ELSE "DEFRESULT"

\* C17 witness: a hit-test on a maximized window, the host saying caption,
\* the title bar query failing, the host's answer returned.
C17_Witness ==
    /\ last.msg = "WM_NCHITTEST" /\ last.q = "fail"
    /\ last.hit = "HTCAPTION" /\ last.ret = "HTCAPTION"
    /\ last.hover = "Close" /\ StoredHover = "Close"

(***************************************************************************)
(* Properties of the pure helpers.                                         *)
(***************************************************************************)
\* C18 as stated: scale(v, dpi) = floor(v * dpi / 96) for every
\* non-negative v; so scale(v, 96) = v, and scale does not decrease when
\* the DPI grows.
C18_Original ==
    last.op = "win32_dpi_scale"
    => /\ last.result = (last.value * last.dpi) \div 96
       /\ last.dpi = 96 => last.result = last.value
       /\ \A in \in ScaleInputs :
             (in[1] = last.value /\ in[2] >= last.dpi)
                => win32_dpi_scale(in[1], in[2]) >= last.result

\* C19: x packed into bits 0..15 and y into bits 16..31 of an LPARAM come
\* back from get_x_param and get_y_param unchanged, negative values
\* included, whatever bits 32..63 hold.
C19_PackedCoordinateRoundTrip ==
    last.op = "get_param" => (last.get_x = last.x /\ last.get_y = last.y)

\* C19 witness: x = -1 and y = -32768 under a non-zero upper half.
C19_Witness ==
    /\ last.op = "get_param" /\ last.x = -1 /\ last.y = -32768
    /\ last.l_param.lo = 65535 /\ last.l_param.hi = 32768
    /\ last.l_param.top = 2147483647
    /\ last.get_x = -1 /\ last.get_y = -32768

\* C20: the three channels come back from rgb(r, g, b) unchanged, and the
\* packed value is below 2^24.
C20_ColorRoundTrip ==
    last.op = "rgb"
    => /\ last.get_r = last.r /\ last.get_g = last.g /\ last.get_b = last.b
       /\ last.packed < 2^24

\* C20 witness: three different channel values, the top bit of one set.
C20_Witness ==
    /\ last.op = "rgb" /\ last.r = 255 /\ last.g = 128 /\ last.b = 1
    /\ last.packed = 98559 /\ last.get_b = 1

\* C21: win32_center_rect_in_rect keeps the width and height of the rectangle
\* it centers, also when that rectangle is larger than the outer one, and
\* leaves its center within one pixel of the outer rectangle's center on
\* each axis (twice the centers are compared, so the bound is 2).
C21_Centering ==
    last.op = "win32_center_rect_in_rect"
    => LET i == last.to_center
           o == last.outer_rect
           r == last.result
           dx == (o.left + o.right) - (r.left + r.right)
           dy == (o.top + o.bottom) - (r.top + r.bottom)
       IN  /\ r.right - r.left = i.right - i.left
           /\ r.bottom - r.top = i.bottom - i.top
           /\ -2 <= dx /\ dx <= 2
           /\ -2 <= dy /\ dy <= 2

\* C21 witness: a 60x50 rectangle centered on the 47x33 minimize button that
\* lies partly left of the client area.
C21_Witness ==
    /\ last.op = "win32_center_rect_in_rect"
    /\ last.to_center = Rect(3, 4, 63, 54)
    /\ last.outer_rect = Rect(-21, 1, 26, 34)
    /\ last.result = Rect(-27, -7, 33, 43)

(***************************************************************************)
(* Behaviour over several messages.                                        *)
(***************************************************************************)
\* C22: with pointer moves routed hit-test first, a move made with stored
\* hover Maximize to a position on the window and outside the maximize
\* button, host queries succeeding, leaves the stored hover state other
\* than Maximize, and the hit-test that follows does not answer
\* HTMAXBUTTON.
C22_StickyReleasedByNextMove ==
    /\ scen.released => StoredHover # "Maximize"
    /\ scen.after => scen.ret # "HTMAXBUTTON"

\* C22 witness: the pointer went from the maximize button to the close
\* button; the hit-test there had still answered HTMAXBUTTON, the move it
\* led to stored Close, and the next hit-test answers caption.
C22_Witness ==
    /\ scen.after /\ scen.ret = "HTCAPTION"
    /\ StoredHover = "Close"
    /\ last.msg = "WM_NCHITTEST" /\ last.hover = "Close"

\* C23: whenever no repaint is pending, the layout has not changed since
\* the last paint and no host query has failed, the fill on screen under
\* each button is the one of the stored hover state: the hover colour under
\* a hovered minimize or maximize button, red under a hovered close button,
\* none under the others.
C23_PaintedChromeMatchesHover ==
    (scen.dirty = {} /\ ~scen.resized /\ ~scen.failed)
    => /\ scen.shown.minimize = "hover" <=> StoredHover = "Minimize"
       /\ scen.shown.maximize = "hover" <=> StoredHover = "Maximize"
       /\ scen.shown.close = "red" <=> StoredHover = "Close"
       /\ \A b \in ButtonNames : scen.shown[b] \in {"none", "hover", "red"}
       /\ scen.shown.close # "hover"
       /\ scen.shown.minimize # "red" /\ scen.shown.maximize # "red"

\* C23 witness: at 150% the pointer is on the close button and the paint
\* that followed the move has drawn it red.
C23_Witness ==
    /\ scen.dirty = {} /\ ~scen.resized /\ ~scen.failed
    /\ dpi = 144 /\ last.msg = "WM_PAINT"
    /\ StoredHover = "Close" /\ scen.shown.close = "red"
    /\ scen.shown.maximize = "none"

ClickMsgs == {"WM_NCLBUTTONDOWN", "WM_NCLBUTTONUP"}

\* C24 as stated: two presses, or two releases, handled with the same
\* stored hover state and the same maximized flag issue the same commands
\* and agree on default handling, whatever their positions and hit-test
\* codes.
C24_Original ==
    (/\ last.msg \in ClickMsgs /\ scen.kept.msg = last.msg
     /\ scen.kept.hover = last.hover /\ scen.kept.max = last.max)
    => /\ scen.kept.cmds = last.cmds
       /\ scen.kept.def = last.def

\* C24 amended: two presses, or two releases, handled with the same stored
\* hover state, the same maximized flag and the same results of the host
\* calls the handler makes issue the same commands and agree on default
\* handling, whatever their positions and hit-test codes; a release with a
\* button in the stored state issues a command and a press with a button in
\* the stored state is not forwarded, wherever they arrive.
C24_ClickDependsOnStoredState ==
    /\ (/\ last.msg \in ClickMsgs /\ scen.kept.msg = last.msg
        /\ scen.kept.hover = last.hover /\ scen.kept.max = last.max
        /\ scen.kept.q = last.q)
       => /\ scen.kept.cmds = last.cmds
          /\ scen.kept.def = last.def
    /\ (last.msg = "WM_NCLBUTTONUP" /\ last.hover # "None") => last.cmds # <<>>
    /\ (last.msg = "WM_NCLBUTTONDOWN" /\ last.hover # "None")
       => ~last.def /\ last.cmds = <<>>

\* C24 witness: the minimize button is in the stored state; one release
\* arrived as a caption hit left of the button, the other as a
\* maximize-button hit on the maximize button, and both minimized.
C24_Witness ==
    /\ last.msg = "WM_NCLBUTTONUP" /\ scen.kept.msg = "WM_NCLBUTTONUP"
    /\ last.hover = "Minimize" /\ scen.kept.hover = "Minimize"
    /\ scen.kept.hit = "HTCAPTION" /\ last.hit = "HTMAXBUTTON"
    /\ scen.kept.pt = <<RefMinimize.left - 1, 1>>
    /\ last.pt = <<RefMaximize.left, 1>>
    /\ scen.kept.cmds = <<"ShowWindow(SW_MINIMIZE)">>
    /\ last.cmds = <<"ShowWindow(SW_MINIMIZE)">>

\* C25 as stated: WM_PAINT returns with every handle it acquired given back
\* (EndPaint for the drawing context, DeleteObject for brushes, pens and
\* fonts, CloseThemeData for theme handles), on the failure paths as well.
C25_Original ==
    last.msg = "WM_PAINT" => scen.held = {}

====
